---- MODULE Spec2Model ----
(***************************************************************************)
(* A model of EasyAgent: the ReAct agent loop (agent/react_agent.py), the  *)
(* summarising memory (memory/summary.py), the tool registry               *)
(* (tool/manager.py) and the configuration singleton (config/base.py).     *)
(* Text is a sequence of one-character strings, so that split, strip and   *)
(* the substring test are computed, not assumed.                           *)
(***************************************************************************)
EXTENDS Integers, Sequences, FiniteSets, TLC

VARIABLES
    \* ---- ReactAgent (one entry per agent instance)
    pc,            \* "idle" | "awaiting" | "finished" | "exhausted" | "failed"
    maxIter,       \* self._max_iterations
    iter,          \* iterations of the for loop entered so far
    calls,         \* invocations of call_with_history made so far
    resps,         \* responses received from call_with_history so far
    history,       \* the messages handed to memory.add, in order
    result,        \* the value run returned (NoResult before it returns)
    lastResp,      \* the last LLMResponse received
    executed,      \* the tool calls handed to _execute_tool, in order
    respLog,       \* the responses received from call_with_history, in order
    \* ---- ToolManager (the process-wide singleton)
    tools,         \* self._tools: an insertion-ordered dict, as a sequence of entries
    initCount,     \* per tool object: how often its init hook ran
    toolOp,        \* the last ToolManager operation and how it ended
    lastByName,    \* per name: the object of the last register that ended well
                   \* since the last clear ("-": none)
    \* ---- SummaryMemory (one instance and its summary file)
    max_tokens,    \* self._max_tokens
    reserve_ratio, \* self._reserve_ratio, as <<numerator, denominator>>
    messages,      \* self._messages
    token_counts,  \* self._token_counts
    summary,       \* self._summary (<<>> is None)
    summary_tokens,\* self._summary_tokens
    fileExists,    \* whether <workspace>/<task_id>/summary.md exists
    fileText,      \* its text
    nextId,        \* identity of the next message handed to add
    added,         \* the messages handed to add since the last clear / construction
    addedCounts,   \* the token count the tokenizer gave each of them
    memOp,         \* the last SummaryMemory operation and how it ended
    \* ---- AppConfig (the module global and the configuration file)
    app_config,    \* config.base._app_config (NoConfig is None)
    cfgFile,       \* what the configuration file holds ("missing": load raises)
    cfgLoaded,     \* the number of AppConfig instances load has built so far
    cfgSinceReset, \* get calls since the process started or reset was last called
    cfgLastGot,    \* what the previous get returned since then (NoConfig: nothing)
    cfgOp,         \* the last AppConfig operation and how it ended
    \* ---- SummaryMemory._parse_summary
    raw,           \* the text handed to _parse_summary
    parsed,        \* what it returned
    parseError     \* the exception it raised ("none": it has not raised)

agentVars == <<pc, maxIter, iter, calls, resps, history, result, lastResp, executed,
              respLog>>
toolVars == <<tools, initCount, toolOp, lastByName>>
memVars == <<max_tokens, reserve_ratio, messages, token_counts, summary,
             summary_tokens, fileExists, fileText, nextId, added, addedCounts, memOp>>
cfgVars == <<app_config, cfgFile, cfgLoaded, cfgSinceReset, cfgLastGot, cfgOp>>
parseVars == <<raw, parsed, parseError>>
vars == <<agentVars, toolVars, memVars, cfgVars, parseVars>>

\* ------------------------------------------------------------------ bounds
\* The largest max_iterations an agent is configured with.
MaxIter == 3

\* The number of register calls explored.
MaxRegs == 4

\* The number of messages handed to SummaryMemory.add over a run.
MaxAdds == 4

\* The number of AppConfig.get and AppConfig.reset calls explored.
MaxConfigOps == 4

\* The length, in runs, of the texts handed to _parse_summary.
MaxRawLen == 5

\* ------------------------------------------------------------------ text
\* str.find, 1-based: the index of the first occurrence of t in s from i on, 0 if none.
RECURSIVE FindFrom(_, _, _)
FindFrom(s, t, i) ==
    IF i + Len(t) - 1 > Len(s) THEN 0
    ELSE IF SubSeq(s, i, i + Len(t) - 1) = t THEN i
    ELSE FindFrom(s, t, i + 1)

Find(s, t) == FindFrom(s, t, 1)

\* `t in s` for strings.
Contains(s, t) == Find(s, t) # 0

\* str.split(sep): the pieces between the non-overlapping occurrences of sep,
\* scanned left to right.
RECURSIVE Split(_, _)
Split(s, sep) ==
    LET i == Find(s, sep)
    IN  IF i = 0 THEN <<s>>
        ELSE <<SubSeq(s, 1, i - 1)>> \o Split(SubSeq(s, i + Len(sep), Len(s)), sep)

\* The characters str.strip() removes: those for which str.isspace() holds.  A
\* character TLA+ has no escape for is written as its code point.
Whitespace ==
    { " ", "\t", "\n", "\r", "\f", "U+000B", "U+001C", "U+001D", "U+001E", "U+001F",
      "U+0085", "U+00A0", "U+1680", "U+2000", "U+2001", "U+2002", "U+2003", "U+2004",
      "U+2005", "U+2006", "U+2007", "U+2008", "U+2009", "U+200A", "U+2028", "U+2029",
      "U+202F", "U+205F", "U+3000" }

RECURSIVE LStrip(_)
LStrip(s) == IF s # <<>> /\ Head(s) \in Whitespace THEN LStrip(Tail(s)) ELSE s

RECURSIVE RStrip(_)
RStrip(s) ==
    IF s # <<>> /\ s[Len(s)] \in Whitespace THEN RStrip(SubSeq(s, 1, Len(s) - 1)) ELSE s

\* str.strip()
Strip(s) == RStrip(LStrip(s))

\* ------------------------------------------------------------------ schema
NoId == "<none>"

Message(role, content, tool_calls, tool_call_id) ==
    [role |-> role, content |-> content, tool_calls |-> tool_calls,
     tool_call_id |-> tool_call_id]

\* tool_calls = None is the empty sequence: run never passes an empty list.
MessageUser(content) == Message("user", content, <<>>, NoId)
MessageAssistant(content, tool_calls) == Message("assistant", content, tool_calls, NoId)
MessageTool(content, tool_call_id) == Message("tool", content, <<>>, tool_call_id)

ToolCall(id, name, arguments) ==
    [id |-> id, type |-> "function", name |-> name, arguments |-> arguments]

LLMResponse(content, tool_calls) == [content |-> content, tool_calls |-> tool_calls]

\* ------------------------------------------------------------------ prompt
\* REACT_END_TOKEN (prompt/react.py): an exact literal the agent scans for.
EndToken == <<"[", "F", "]">>

MaxIterationsReached == <<"Max iterations reached">>

NoResult == <<"<no result>">>

\* ------------------------------------------------------------------ tools
\* The values handed to register.  isTool: whether the value has every member of
\* the Tool protocol (what isinstance against a runtime_checkable Protocol tests);
\* initRaises: whether its init hook raises; result: what its execute returns.
ToolObject(oid, name, isTool, initRaises, hasParameters, res) ==
    [oid |-> oid, name |-> name, type |-> "function", description |-> oid,
     isTool |-> isTool, initRaises |-> initRaises,
     hasParameters |-> hasParameters, result |-> res]

ToolObjects ==
    { ToolObject("calcA", "calc", TRUE, FALSE, TRUE, <<"4", "2">>),
      ToolObject("calcB", "calc", TRUE, FALSE, FALSE, <<"7">>),
      ToolObject("echo", "echo", TRUE, FALSE, FALSE, <<"e">>),
      ToolObject("noexec", "calc", FALSE, FALSE, FALSE, <<>>),
      ToolObject("boom", "echo", TRUE, TRUE, FALSE, <<>>) }

ObjectIds == { o.oid : o \in ToolObjects }

ToolNames == { o.name : o \in ToolObjects }

\* dict: `k in d`
DictHas(d, k) == \E j \in 1..Len(d) : d[j].name = k

\* dict: d[k]
DictGet(d, k) == d[CHOOSE j \in 1..Len(d) : d[j].name = k].tool

\* DictSet adding an entry whether or not the key is there.
DictSetAlwaysAppends(d, k, v) == Append(d, [name |-> k, tool |-> v])

\* dict: d[k] = v: an existing key keeps its place and takes the new value, a new
\* key goes last.
DictSet(d, k, v) ==
    IF DictHas(d, k)
    THEN [j \in 1..Len(d) |-> IF d[j].name = k THEN [name |-> k, tool |-> v] ELSE d[j]]
    ELSE Append(d, [name |-> k, tool |-> v])

\* register ran to its end: init has run, then the tool is stored under its name.
RegisterStored(o) ==
    /\ initCount' = [initCount EXCEPT ![o.oid] = @ + 1]
    /\ tools' = DictSet(tools, o.name, o)

\* RegisterInitRaised with the tool stored before init is called.
RegisterStoredBeforeInit(o) ==
    /\ initCount' = [initCount EXCEPT ![o.oid] = @ + 1]
    /\ tools' = DictSet(tools, o.name, o)

\* register left by the exception init raised: nothing is stored.
RegisterInitRaised(o) ==
    /\ initCount' = [initCount EXCEPT ![o.oid] = @ + 1]
    /\ tools' = tools

\* ToolManager.register(tool)
Register(o) ==
    /\ toolOp.n < MaxRegs
    /\ IF ~o.isTool
       THEN /\ toolOp' = [op |-> "register", oid |-> o.oid, outcome |-> "TypeError",
                          overwrote |-> FALSE, n |-> toolOp.n + 1]
            /\ UNCHANGED <<tools, initCount, lastByName>>
       ELSE IF o.initRaises
       THEN /\ toolOp' = [op |-> "register", oid |-> o.oid, outcome |-> "InitError",
                          overwrote |-> FALSE, n |-> toolOp.n + 1]
            /\ RegisterInitRaised(o)
            /\ UNCHANGED lastByName
       ELSE /\ toolOp' = [op |-> "register", oid |-> o.oid, outcome |-> "ok",
                          overwrote |-> DictHas(tools, o.name), n |-> toolOp.n + 1]
            /\ RegisterStored(o)
            /\ lastByName' = [lastByName EXCEPT ![o.name] = o.oid]
    /\ UNCHANGED <<agentVars, memVars, cfgVars, parseVars>>

\* ToolManager.clear()
ToolsClear ==
    /\ tools' = <<>>
    /\ toolOp' = [toolOp EXCEPT !.op = "clear", !.oid = "-", !.outcome = "ok",
                                !.overwrote = FALSE]
    /\ lastByName' = [k \in ToolNames |-> "-"]
    /\ UNCHANGED <<initCount, agentVars, memVars, cfgVars, parseVars>>

\* ToolManager.get(name): the tool, or None (here the empty set against a singleton).
ToolGet(name) == IF DictHas(tools, name) THEN {DictGet(tools, name)} ELSE {}

DefaultParameters == "{type: object, properties: {}}"

\* ToolManager._tool_to_schema
ToolToSchema(t) ==
    [type |-> t.type,
     function |-> [name |-> t.name, description |-> t.description,
                   parameters |-> IF t.hasParameters THEN t.oid ELSE DefaultParameters]]

\* A names argument: given = FALSE is names=None.
NamesNone == [given |-> FALSE, list |-> <<>>]
NamesList(l) == [given |-> TRUE, list |-> l]

\* Python truthiness of names: None and the empty list are both false.
NamesTruthy(names) == names.given /\ names.list # <<>>

RECURSIVE SelectRegistered(_, _)
SelectRegistered(d, l) ==
    IF l = <<>> THEN <<>>
    ELSE (IF DictHas(d, Head(l)) THEN <<DictGet(d, Head(l))>> ELSE <<>>)
         \o SelectRegistered(d, Tail(l))

\* ToolManager.get_schema(names)
GetSchema(names) ==
    LET ts == IF NamesTruthy(names)
              THEN SelectRegistered(tools, names.list)
              ELSE [j \in 1..Len(tools) |-> tools[j].tool]
    IN  [j \in 1..Len(ts) |-> ToolToSchema(ts[j])]

\* The names lists handed to get_schema: empty, registered and unknown names.
NameLists ==
    { <<>>, <<"calc">>, <<"echo">>, <<"nope">>, <<"calc", "nope">>, <<"echo", "calc">> }

\* The values of a ToolCall's arguments (dict[str, Any]) that json.dumps can
\* write, tagged by their Python type; numbers are integers, a string is its
\* characters, an object is its <<key, value>> items in order, keys being strings.
JNull == [t |-> "null"]
JBool(b) == [t |-> "bool", v |-> b]
JInt(n) == [t |-> "int", v |-> n]
JStr(chars) == [t |-> "str", v |-> chars]
JList(elems) == [t |-> "list", v |-> elems]
JObject(items) == [t |-> "dict", v |-> items]

Digits == <<"0", "1", "2", "3", "4", "5", "6", "7", "8", "9">>

\* str(n) of a non-negative integer
RECURSIVE NatChars(_)
NatChars(n) ==
    IF n < 10 THEN <<Digits[n + 1]>> ELSE NatChars(n \div 10) \o <<Digits[(n % 10) + 1]>>

\* str(n) of an integer
IntChars(n) == IF n < 0 THEN <<"-">> \o NatChars(0 - n) ELSE NatChars(n)

\* A character is a one-character string when it is printable ASCII (' '..'~')
\* or one of \t \n \r \f, and otherwise the name of its code point: "U+" and
\* its hexadecimal digits, four or more ("U+007F", "U+00E9", "U+1F600"). The
\* grave accent, which a TLA+ string cannot hold, is "U+0060".
PrintableBelowGrave ==
    " !\"#$%&'()*+,-./0123456789:;<=>?@ABCDEFGHIJKLMNOPQRSTUVWXYZ[\\]^_"

PrintableAboveGrave == "abcdefghijklmnopqrstuvwxyz{|}~"

\* chr(n) for n in 32..126
PrintableChar(n) ==
    IF n < 96 THEN SubSeq(PrintableBelowGrave, n - 31, n - 31)
    ELSE IF n = 96 THEN "U+0060"
    ELSE SubSeq(PrintableAboveGrave, n - 96, n - 96)

PrintableChars == { PrintableChar(n) : n \in 32..126 }

HexDigits == "0123456789abcdef"

HexDigitsUpper == "0123456789ABCDEF"

\* int(text, 16)
RECURSIVE HexValue(_)
HexValue(text) ==
    IF Len(text) = 0 THEN 0
    ELSE LET d == SubSeq(text, Len(text), Len(text))
         IN  16 * HexValue(SubSeq(text, 1, Len(text) - 1))
             + (CHOOSE v \in 0..15 : \/ SubSeq(HexDigits, v + 1, v + 1) = d
                                    \/ SubSeq(HexDigitsUpper, v + 1, v + 1) = d)

IsCodePointName(c) == Len(c) >= 6 /\ SubSeq(c, 1, 2) = "U+"

\* ord(c) of a character named by its code point
CodePoint(c) == HexValue(SubSeq(c, 3, Len(c)))

\* '\\u{0:04x}'.format(n), for n < 65536
UnicodeEscape(n) ==
    <<"\\", "u", SubSeq(HexDigits, (n \div 4096) + 1, (n \div 4096) + 1),
      SubSeq(HexDigits, ((n \div 256) % 16) + 1, ((n \div 256) % 16) + 1),
      SubSeq(HexDigits, ((n \div 16) % 16) + 1, ((n \div 16) % 16) + 1),
      SubSeq(HexDigits, (n % 16) + 1, (n % 16) + 1)>>

\* What json.dumps writes, under ensure_ascii, for the character of code point
\* n: the two-character escapes, the character itself in ' '..'~', \uXXXX for
\* every other character, as a surrogate pair above U+FFFF.
CodePointEscape(n) ==
    CASE n = 34 -> <<"\\", "\"">>
      [] n = 92 -> <<"\\", "\\">>
      [] n = 8 -> <<"\\", "b">>
      [] n = 9 -> <<"\\", "t">>
      [] n = 10 -> <<"\\", "n">>
      [] n = 12 -> <<"\\", "f">>
      [] n = 13 -> <<"\\", "r">>
      [] n >= 32 /\ n <= 126 /\ n # 34 /\ n # 92 -> <<PrintableChar(n)>>
      [] n >= 65536 -> UnicodeEscape(55296 + ((n - 65536) \div 1024))
                       \o UnicodeEscape(56320 + ((n - 65536) % 1024))
      [] OTHER -> UnicodeEscape(n)

\* What json.dumps writes for one character of a string.
JsonChar(c) ==
    CASE IsCodePointName(c) -> CodePointEscape(CodePoint(c))
      [] c = "\"" -> <<"\\", "\"">>
      [] c = "\\" -> <<"\\", "\\">>
      [] c = "\n" -> <<"\\", "n">>
      [] c = "\r" -> <<"\\", "r">>
      [] c = "\t" -> <<"\\", "t">>
      [] c = "\f" -> <<"\\", "f">>
      [] c \in PrintableChars \ {"\"", "\\"} -> <<c>>

RECURSIVE JsonChars(_)
JsonChars(chars) ==
    IF chars = <<>> THEN <<>> ELSE JsonChar(Head(chars)) \o JsonChars(Tail(chars))

\* json.dumps of a string
JsonString(chars) == <<"\"">> \o JsonChars(chars) \o <<"\"">>

RECURSIVE JsonValue(_)
RECURSIVE JsonElems(_)
RECURSIVE JsonItems(_)

\* The elements of a list, joined by ", ".
JsonElems(elems) ==
    IF elems = <<>> THEN <<>>
    ELSE JsonValue(Head(elems))
         \o (IF Len(elems) > 1 THEN <<",", " ">> ELSE <<>>)
         \o JsonElems(Tail(elems))

\* The items of a dict: `"key": value`, joined by ", ".
JsonItems(items) ==
    IF items = <<>> THEN <<>>
    ELSE JsonString(items[1][1]) \o <<":", " ">> \o JsonValue(items[1][2])
         \o (IF Len(items) > 1 THEN <<",", " ">> ELSE <<>>)
         \o JsonItems(Tail(items))

\* json.dumps of one value
JsonValue(x) ==
    CASE x.t = "null" -> <<"n", "u", "l", "l">>
      [] x.t = "bool" -> IF x.v THEN <<"t", "r", "u", "e">>
                         ELSE <<"f", "a", "l", "s", "e">>
      [] x.t = "int" -> IntChars(x.v)
      [] x.t = "str" -> JsonString(x.v)
      [] x.t = "list" -> <<"[">> \o JsonElems(x.v) \o <<"]">>
      [] x.t = "dict" -> <<"{">> \o JsonItems(x.v) \o <<"}">>

\* json.dumps of a dict, given as its <<key, value>> items in order.
JsonDumps(items) == JsonValue(JObject(items))

\* One record of format_tool_calls.
FormatToolCall(tc) ==
    [id |-> tc.id, type |-> tc.type,
     function |-> [name |-> tc.name, arguments |-> JsonDumps(tc.arguments)]]

\* ToolManager.format_tool_calls(tool_calls)
FormatToolCalls(tcs) == [i \in 1..Len(tcs) |-> FormatToolCall(tcs[i])]

\* The argument values, each as json.dumps writes it, one after the other.
RECURSIVE ArgumentTexts(_)
ArgumentTexts(arguments) ==
    IF arguments = <<>> THEN <<>>
    ELSE JsonValue(Head(arguments)[2]) \o ArgumentTexts(Tail(arguments))

\* A tool's execute(**kwargs): its fixed text followed by the argument values.
ToolExecute(t, arguments) == t.result \o ArgumentTexts(arguments)

ToolNotFound == <<"tool not found">>

\* ToolAgent._execute_tool(name, arguments): look the tool up and run it; a
\* missing tool gives a text result, not an exception.
ExecuteTool(name, arguments) ==
    IF DictHas(tools, name) THEN ToolExecute(DictGet(tools, name), arguments)
    ELSE ToolNotFound

ToolsInit ==
    /\ tools = <<>>
    /\ initCount = [o \in ObjectIds |-> 0]
    /\ toolOp = [op |-> "new", oid |-> "-", outcome |-> "ok", overwrote |-> FALSE, n |-> 0]
    /\ lastByName = [k \in ToolNames |-> "-"]

\* The registry an agent runs against: calcA registered once.
ToolsFixed ==
    LET o == CHOOSE x \in ToolObjects : x.oid = "calcA"
    IN  /\ tools = <<[name |-> o.name, tool |-> o]>>
        /\ initCount = [x \in ObjectIds |-> IF x = "calcA" THEN 1 ELSE 0]
        /\ toolOp = [op |-> "register", oid |-> "calcA", outcome |-> "ok",
                     overwrote |-> FALSE, n |-> 1]
        /\ lastByName = [k \in ToolNames |-> IF k = "calc" THEN "calcA" ELSE "-"]

\* ------------------------------------------------------------------ ReactAgent
AgentIds == {1, 2}

\* ReactAgent._is_finished(content)
IsFinished(content) == Contains(content, EndToken)

\* FinalText without the strip.
FinalTextUntrimmed(content) == Split(content, EndToken)[1]

\* FinalText taking the piece after the first end token.
FinalTextAfterToken(content) == Strip(Split(content, EndToken)[2])

\* The text run keeps of a response that holds the end token.
FinalText(content) == Strip(Split(content, EndToken)[1])

\* ReactAgent._extract_final_answer(content)
ExtractFinalAnswer(content) ==
    IF Contains(content, EndToken) THEN FinalText(content) ELSE content

\* What the user may ask.
UserInputs == { <<"q">> }

\* Response texts without the end token.
OpenContents ==
    { <<>>,                                     \* empty: a pure tool request
      <<"t", "h">>,                             \* free text
      <<"[", "F">> }                            \* a cut-off token

\* Response texts that come with tool calls.
ToolContents == { <<>>, <<"t", "h">> }

\* Response texts holding the end token.
EndContents ==
    { <<" ", "a", " ", "[", "F", "]", "b">>,                   \* " a [F]b"
      <<"[", "F", "]", "b">>,                                  \* "[F]b"
      <<"a", "[", "F", "]", "b", "[", "F", "]", "c">>,         \* "a[F]b[F]c"
      <<"a", "\r", "\n", "[", "F", "]">>,                      \* "a\r\n[F]"
      <<"a", " ", "b", "[", "F", "]", " ", "c", " ">> }        \* "a b[F] c "

Tc1 == ToolCall("c1", "calc", << <<<<"x">>, JInt(1)>> >>)
Tc2 == ToolCall("c2", "nope", <<>>)
Tc3 == ToolCall("c1", "calc",
               << <<<<"x">>, JInt(2)>>, <<<<"y">>, JBool(TRUE)>>,
                  <<<<"q">>, JStr(<<"c", "a", "f", "U+00E9">>)>> >>)

\* The tool_calls a response may carry (<<>>: none).
ToolCallLists == { <<Tc1>>, <<Tc2, Tc1>>, <<Tc1, Tc3>> }

NoResponse == LLMResponse(<<>>, <<>>)

\* ToolAgent.add_message(message): hands the message to the memory's add; hist is
\* what the memory was handed so far.
AddMessage(hist, message) == Append(hist, message)

RECURSIVE AddMessages(_, _)
AddMessages(hist, msgs) ==
    IF msgs = <<>> THEN hist ELSE AddMessages(AddMessage(hist, Head(msgs)), Tail(msgs))

AgentInit(configs) ==
    /\ pc = [a \in AgentIds |-> "idle"]
    /\ maxIter \in configs
    /\ iter = [a \in AgentIds |-> 0]
    /\ calls = [a \in AgentIds |-> 0]
    /\ resps = [a \in AgentIds |-> 0]
    /\ history = [a \in AgentIds |-> <<>>]
    /\ result = [a \in AgentIds |-> NoResult]
    /\ lastResp = [a \in AgentIds |-> NoResponse]
    /\ executed = [a \in AgentIds |-> <<>>]
    /\ respLog = [a \in AgentIds |-> <<>>]

\* LoopContinues with the bound off by one.
LoopContinuesInclusive(a) == iter[a] <= maxIter[a]

\* `for i in range(self._max_iterations)`: whether another iteration is entered.
LoopContinues(a) == iter[a] < maxIter[a]

\* NextIteration with one memory behind every agent: what one agent stores is
\* what every agent holds.
NextIterationSharedMemory(a, hist) ==
    /\ history' = [b \in AgentIds |-> hist]
    /\ IF LoopContinues(a)
       THEN /\ iter' = [iter EXCEPT ![a] = @ + 1]
            /\ calls' = [calls EXCEPT ![a] = @ + 1]
            /\ pc' = [pc EXCEPT ![a] = "awaiting"]
            /\ UNCHANGED result
       ELSE /\ pc' = [pc EXCEPT ![a] = "exhausted"]
            /\ result' = [result EXCEPT ![a] = MaxIterationsReached]
            /\ UNCHANGED <<iter, calls>>

\* The end of an iteration's body (or of the code before the loop) with memory
\* hist: the loop enters its next iteration, which runs up to the model call it
\* awaits, or is exhausted, and run returns the sentinel.
NextIteration(a, hist) ==
    /\ history' = [history EXCEPT ![a] = hist]
    /\ IF LoopContinues(a)
       THEN /\ iter' = [iter EXCEPT ![a] = @ + 1]
            /\ calls' = [calls EXCEPT ![a] = @ + 1]
            /\ pc' = [pc EXCEPT ![a] = "awaiting"]
            /\ UNCHANGED result
       ELSE /\ pc' = [pc EXCEPT ![a] = "exhausted"]
            /\ result' = [result EXCEPT ![a] = MaxIterationsReached]
            /\ UNCHANGED <<iter, calls>>

\* What the agents' steps leave alone when the memory only records what it is
\* handed.
othersVars == <<toolVars, memVars, cfgVars, parseVars>>

\* run(user_input) up to its first suspension.
StartStep(a) ==
    /\ pc[a] = "idle"
    /\ \E input \in UserInputs :
          NextIteration(a, AddMessage(history[a], MessageUser(input)))
    /\ UNCHANGED <<maxIter, resps, lastResp, respLog, executed>>

Start(a) == StartStep(a) /\ UNCHANGED othersVars

\* Branch with the tool calls looked at before the end token.
BranchToolsFirst(resp) ==
    IF resp.tool_calls # <<>> THEN "tools"
    ELSE IF IsFinished(resp.content) THEN "finish"
    ELSE "no_tool"

\* The branch run takes on a response: the end token is looked for first, the
\* tool calls after.
Branch(resp) ==
    IF IsFinished(resp.content) THEN "finish"
    ELSE IF resp.tool_calls = <<>> THEN "no_tool"
    ELSE "tools"

Received(a, resp) ==
    /\ resps' = [resps EXCEPT ![a] = @ + 1]
    /\ lastResp' = [lastResp EXCEPT ![a] = resp]
    /\ respLog' = [respLog EXCEPT ![a] = Append(@, resp)]

\* What run appends for a response with the end token.
FinishMessages(resp) == <<MessageAssistant(ExtractFinalAnswer(resp.content), <<>>)>>

\* The model answers with the end token: the final answer is stored and returned.
RespFinishStep(a) ==
    /\ pc[a] = "awaiting"
    /\ \E content \in EndContents, tcs \in ToolCallLists \cup {<<>>} :
          LET resp == LLMResponse(content, tcs)
          IN  /\ Branch(resp) = "finish"
              /\ Received(a, resp)
              /\ history' = [history EXCEPT ![a] = AddMessages(@, FinishMessages(resp))]
              /\ result' = [result EXCEPT ![a] = ExtractFinalAnswer(resp.content)]
              /\ pc' = [pc EXCEPT ![a] = "finished"]
    /\ UNCHANGED <<maxIter, iter, calls, executed>>

RespFinish(a) == RespFinishStep(a) /\ UNCHANGED othersVars

\* The model answers without the end token and without tool calls.
RespNoToolStep(a) ==
    /\ pc[a] = "awaiting"
    /\ \E content \in OpenContents :
          LET resp == LLMResponse(content, <<>>)
          IN  /\ Branch(resp) = "no_tool"
              /\ Received(a, resp)
              /\ NextIteration(a, AddMessage(history[a], MessageAssistant(resp.content, <<>>)))
    /\ UNCHANGED <<maxIter, executed>>

RespNoTool(a) == RespNoToolStep(a) /\ UNCHANGED othersVars

\* The tool messages of one round: each call executed in order, its result
\* stored under the call's id.
ToolMessages(tcs) ==
    [i \in 1..Len(tcs) |->
        MessageTool(ExecuteTool(tcs[i].name, tcs[i].arguments), tcs[i].id)]

\* ToolRoundMessages with the results stored before the request.
ToolRoundMessagesResultsFirst(resp) ==
    ToolMessages(resp.tool_calls)
    \o <<MessageAssistant(resp.content, FormatToolCalls(resp.tool_calls))>>

\* What run appends for a response that asks for tools.
ToolRoundMessages(resp) ==
    <<MessageAssistant(resp.content, FormatToolCalls(resp.tool_calls))>>
    \o ToolMessages(resp.tool_calls)

\* The model answers without the end token and asks for tools.
RespToolsStep(a) ==
    /\ pc[a] = "awaiting"
    /\ \E content \in ToolContents \cup EndContents, tcs \in ToolCallLists :
          LET resp == LLMResponse(content, tcs)
          IN  /\ Branch(resp) = "tools"
              /\ Received(a, resp)
              /\ executed' = [executed EXCEPT ![a] = @ \o resp.tool_calls]
              /\ NextIteration(a, AddMessages(history[a], ToolRoundMessages(resp)))
    /\ UNCHANGED maxIter

RespTools(a) == RespToolsStep(a) /\ UNCHANGED othersVars

\* ModelFail with the exception caught and the sentinel returned.
ModelFailSwallowed(a) ==
    /\ pc[a] = "awaiting"
    /\ pc' = [pc EXCEPT ![a] = "exhausted"]
    /\ result' = [result EXCEPT ![a] = MaxIterationsReached]
    /\ UNCHANGED <<maxIter, iter, calls, resps, history, lastResp, respLog, executed,
                   toolVars, memVars, cfgVars, parseVars>>

\* call_with_history raises: the exception leaves run.
ModelFail(a) ==
    /\ pc[a] = "awaiting"
    /\ pc' = [pc EXCEPT ![a] = "failed"]
    /\ UNCHANGED <<maxIter, iter, calls, resps, history, result, lastResp, respLog, executed,
                   toolVars, memVars, cfgVars, parseVars>>

\* ------------------------------------------------------------------ SummaryMemory
\* litellm.get_max_tokens(model) of the models explored.
ContextWindows == {4}

\* The token counts the tokenizer gives one message: small ones, and one larger
\* than the whole context window.
MsgTokenChoices == {1, 2, 5}

\* The token counts of one summary block the model writes: one that fits every
\* summary budget explored and one over the budgets.
BlockTokenChoices == {1, 3}

\* reserve_ratio as <<numerator, denominator>>: 0.3 (the default) and 0.5.
ReserveRatios == { <<3, 10>>, <<1, 2>> }

Abs(x) == IF x < 0 THEN 0 - x ELSE x

RECURSIVE Gcd(_, _)
Gcd(x, y) == IF y = 0 THEN x ELSE Gcd(y, x % y)

RECURSIVE Pow2(_)
Pow2(e) == IF e = 0 THEN 1 ELSE 2 * Pow2(e - 1)

\* (2 ^ e) % q
RECURSIVE Pow2Mod(_, _)
Pow2Mod(e, q) ==
    IF e = 0 THEN 1 % q
    ELSE LET h == Pow2Mod(e \div 2, q)
         IN  IF e % 2 = 0 THEN (h * h) % q ELSE (2 * h * h) % q

\* The largest e with 2^e <= k, for k >= 1.
RECURSIVE Log2Floor(_)
Log2Floor(k) == IF k < 2 THEN 0 ELSE 1 + Log2Floor(k \div 2)

\* The a with 2^(-a) <= p/q < 2^(1-a), for p, q >= 1: the binary64 nearest p/q
\* is M / 2^(52+a) for an integer M of 53 bits.
RECURSIVE RatioShift(_, _, _)
RatioShift(p, q, a) ==
    IF p >= q
    THEN IF 2 * q * Pow2(0 - a) <= p THEN RatioShift(p, q, a - 1) ELSE a
    ELSE IF p * Pow2(a) < q THEN RatioShift(p, q, a + 1) ELSE a

\* How far the binary64 nearest p/q lies from p/q, in units of 1/(q * 2^(52+a)),
\* for p/q in lowest terms: the remainder of p * 2^(52+a) by q, rounded to the
\* nearest multiple of q (a tie needs q = 2, and then the remainder is 0).
RatioError(p, q, a) ==
    LET R == (p * Pow2Mod(52 + a, q)) % q
    IN  IF 2 * R < q THEN 0 - R ELSE q - R

\* Whether the exact product k + n*d/(q * 2^s), s = 52 + a, rounds to a float
\* below the integer k: only when d < 0 and the product lies more than half a
\* unit in the last place below k, which is 2^(-T) / 2^s for
\* T = a + e - 1, e = Log2Floor(k), one more when k = 2^e.
RoundsBelow(n, q, d, T) ==
    /\ d < 0
    /\ IF T >= 0 THEN (0 - n * d) > q * Pow2(T)
       ELSE (0 - n * d) * Pow2(0 - T) > q

\* The T of RoundsBelow for the integer k and the shift a.
HalfUlpShift(k, a) ==
    a + Log2Floor(k) - 1 - (IF k = Pow2(Log2Floor(k)) THEN 1 ELSE 0)

\* RoundsBelow for p/q in lowest terms, a its RatioShift.
RoundsBelowAt(n, p, q, k, a) ==
    RoundsBelow(n, q, RatioError(p, q, a), HalfUlpShift(k, a))

\* int(n * r) in binary64 arithmetic, r the float nearest p/q, for n, p >= 0:
\* the exact product is n*p/q + n*d/(q * 2^s) with d the RatioError.  It can
\* round below the integer k = n*p/q only when q divides n*p.
FloatTimesInt(n, p, q) ==
    LET k == (n * p) \div q
    IN  IF (n * p) % q > 0 \/ k = 0 THEN k
        ELSE IF RoundsBelowAt(n, p \div Gcd(p, q), q \div Gcd(p, q), k,
                              RatioShift(p \div Gcd(p, q), q \div Gcd(p, q), 0))
        THEN k - 1
        ELSE k

\* int(max_tokens * ratio), ratio the float nearest ratio[1] / ratio[2]
\* (ratio[2] > 0); int truncates toward zero.
IntOfProduct(n, ratio) ==
    LET v == FloatTimesInt(Abs(n), Abs(ratio[1]), ratio[2])
    IN  IF (n < 0) # (ratio[1] < 0) THEN 0 - v ELSE v

\* IntOfProduct over the windows and ratios explored, computed once.
ReserveTable ==
    [n \in ContextWindows |-> [ratio \in ReserveRatios |-> IntOfProduct(n, ratio)]]

\* SummaryMemory._reserve_tokens: int(max_tokens * reserve_ratio)
ReserveTokens ==
    IF max_tokens \in ContextWindows /\ reserve_ratio \in ReserveRatios
    THEN ReserveTable[max_tokens][reserve_ratio]
    ELSE IntOfProduct(max_tokens, reserve_ratio)

\* SummaryMemory._summary_budget
SummaryBudget == max_tokens - ReserveTokens

RECURSIVE SumSeq(_)
SumSeq(q) == IF q = <<>> THEN 0 ELSE Head(q) + SumSeq(Tail(q))

\* SummaryMemory.token_count
TokenCount(counts) == SumSeq(counts)

\* SummaryMemory.total_tokens
TotalTokens(stoks, counts) == stoks + TokenCount(counts)

\* A summary text is the sequence of the blocks SUMMARY_FORMAT rendered, joined by
\* "\n\n---\n\n".  A block is what the model wrote of the messages it covers:
\* [covers |-> the messages, tok |-> its token count].
Block(covers, tok) == [covers |-> covers, tok |-> tok]

RECURSIVE BlockTokens(_)
BlockTokens(text) == IF text = <<>> THEN 0 ELSE Head(text).tok + BlockTokens(Tail(text))

\* SummaryMemory._count_text_tokens: litellm.token_counter over a text; one token
\* per separator between blocks.
CountTextTokens(text) == IF text = <<>> THEN 0 ELSE BlockTokens(text) + Len(text) - 1

Covered(text) == UNION { text[i].covers : i \in 1..Len(text) }

\* The instance and its file as one value.
Mem == [messages |-> messages, token_counts |-> token_counts, summary |-> summary,
        summary_tokens |-> summary_tokens, fileExists |-> fileExists,
        fileText |-> fileText]

\* How a stretch of add's code ended: the state it left, whether it ended without
\* an exception, whether _do_summary replaced the retained lists, and the
\* completion calls made.
Outcome(m, ok, replaced, llm) == [m |-> m, ok |-> ok, replaced |-> replaced, llm |-> llm]

\* Where a gateway call of add raises ("none": nowhere).
FailPoints == {"none", "count_message", "summarize", "count_summary", "compress",
               "count_compressed"}

\* Where a gateway call of the constructor raises ("none": nowhere): the token
\* count of the summary read from the file.
LoadFailPoints == {"none", "count_loaded"}

\* The loop of _do_summary: walk the token counts from the most recent back,
\* counting the messages that fit the reserve.
RECURSIVE KeepLoop(_, _, _, _)
KeepLoop(counts, reserve, keep_tokens, keep_count) ==
    IF counts = <<>> THEN keep_count
    ELSE LET tokens == counts[Len(counts)]
         IN  IF keep_tokens + tokens > reserve THEN keep_count
             ELSE KeepLoop(SubSeq(counts, 1, Len(counts) - 1), reserve,
                           keep_tokens + tokens, keep_count + 1)

Max(x, y) == IF x >= y THEN x ELSE y

\* KeepCount filling the whole window instead of the reserve.
KeepCountAgainstWindow(counts, reserve) == Max(KeepLoop(counts, max_tokens, 0, 0), 1)

\* keep_count after `keep_count = max(keep_count, 1)`
KeepCount(counts, reserve) == Max(KeepLoop(counts, reserve, 0, 0), 1)

\* SummaryMemory._compress_summary, the model writing tok tokens.
CompressSummary(m, tok, failAt) ==
    IF m.summary = <<>> THEN Outcome(m, TRUE, FALSE, 0)
    ELSE IF failAt = "compress" THEN Outcome(m, FALSE, FALSE, 1)
    ELSE LET text == <<Block(Covered(m.summary), tok)>>
         IN  IF failAt = "count_compressed"
             THEN Outcome([m EXCEPT !.summary = text], FALSE, FALSE, 1)
             ELSE Outcome([m EXCEPT !.summary = text,
                                    !.summary_tokens = CountTextTokens(text)],
                          TRUE, FALSE, 1)

\* SummaryMemory._save_summary
SaveSummary(m) == [m EXCEPT !.fileExists = TRUE, !.fileText = m.summary]

\* SaveAndKeep keeping the oldest messages, with the counts of the newest.
SaveAndKeepOldest(m, keep_count) ==
    LET n == Len(m.messages)
    IN  [SaveSummary(m) EXCEPT
            !.messages = SubSeq(m.messages, 1, keep_count),
            !.token_counts = SubSeq(m.token_counts, n - keep_count + 1, n)]

\* The end of _do_summary: save the summary, keep the suffix.
SaveAndKeep(m, keep_count) ==
    LET n == Len(m.messages)
    IN  [SaveSummary(m) EXCEPT
            !.messages = SubSeq(m.messages, n - keep_count + 1, n),
            !.token_counts = SubSeq(m.token_counts, n - keep_count + 1, n)]

\* _do_summary when there is nothing to summarise.
NothingToSummarize(m, tok2, failAt, budget) ==
    IF m.summary # <<>> /\ m.summary_tokens > budget
    THEN CompressSummary(m, tok2, failAt)
    ELSE Outcome(m, TRUE, FALSE, 0)

\* _do_summary for the keep_count and the _summary_budget it computes.
DoSummaryKeeping(m, tok1, tok2, failAt, keep_count, budget) ==
    LET n == Len(m.messages)
        to_summarize == SubSeq(m.messages, 1, n - keep_count)
    IN  IF to_summarize = <<>> THEN NothingToSummarize(m, tok2, failAt, budget)
        ELSE IF failAt = "summarize" THEN Outcome(m, FALSE, FALSE, 1)
        ELSE LET covers == { to_summarize[i] : i \in 1..Len(to_summarize) }
                 text == m.summary \o <<Block(covers, tok1)>>
             IN  IF failAt = "count_summary"
                 THEN Outcome([m EXCEPT !.summary = text], FALSE, FALSE, 1)
                 ELSE LET m1 == [m EXCEPT !.summary = text,
                                          !.summary_tokens = CountTextTokens(text)]
                          c == IF m1.summary_tokens > budget
                               THEN CompressSummary(m1, tok2, failAt)
                               ELSE Outcome(m1, TRUE, FALSE, 0)
                      IN  IF ~c.ok THEN Outcome(c.m, FALSE, FALSE, 1 + c.llm)
                          ELSE Outcome(SaveAndKeep(c.m, keep_count), TRUE, TRUE,
                                       1 + c.llm)

\* SummaryMemory._do_summary, the model writing tok1 tokens for the summary and
\* tok2 for the compressed summary.
DoSummary(m, tok1, tok2, failAt) ==
    DoSummaryKeeping(m, tok1, tok2, failAt,
                     KeepCount(m.token_counts, ReserveTokens), SummaryBudget)

\* AddOutcome compressing as soon as the total reaches max_tokens.
AddOutcomeAtLimit(m, id, tokens, tok1, tok2, failAt) ==
    IF failAt = "count_message" THEN Outcome(m, FALSE, FALSE, 0)
    ELSE LET m1 == [m EXCEPT !.messages = Append(@, id),
                             !.token_counts = Append(@, tokens)]
         IN  IF TotalTokens(m1.summary_tokens, m1.token_counts) >= max_tokens
             THEN DoSummary(m1, tok1, tok2, failAt)
             ELSE Outcome(m1, TRUE, FALSE, 0)

\* SummaryMemory.add(message), the tokenizer counting tokens for the message.
AddOutcome(m, id, tokens, tok1, tok2, failAt) ==
    IF failAt = "count_message" THEN Outcome(m, FALSE, FALSE, 0)
    ELSE LET m1 == [m EXCEPT !.messages = Append(@, id),
                             !.token_counts = Append(@, tokens)]
         IN  IF TotalTokens(m1.summary_tokens, m1.token_counts) > max_tokens
             THEN DoSummary(m1, tok1, tok2, failAt)
             ELSE Outcome(m1, TRUE, FALSE, 0)

\* ClearState leaving the summary file in place.
ClearStateKeepsFile(m) ==
    [m EXCEPT !.messages = <<>>, !.token_counts = <<>>, !.summary = <<>>,
              !.summary_tokens = 0]

\* SummaryMemory.clear()
ClearState(m) ==
    [m EXCEPT !.messages = <<>>, !.token_counts = <<>>, !.summary = <<>>,
              !.summary_tokens = 0, !.fileExists = FALSE, !.fileText = <<>>]

\* SummaryMemory.__init__ with _load_existing_summary, for the file left by m.
LoadState(m) ==
    [m EXCEPT !.messages = <<>>, !.token_counts = <<>>,
              !.summary = IF m.fileExists THEN m.fileText ELSE <<>>,
              !.summary_tokens = IF m.fileExists THEN CountTextTokens(m.fileText) ELSE 0]

\* SummaryMemory.__init__ from line 32 on, for the file left by m: the token
\* count of an existing summary may raise, and then there is no instance.
LoadOutcome(m, failAt) ==
    IF m.fileExists /\ failAt = "count_loaded"
    THEN Outcome(ClearStateKeepsFile(m), FALSE, FALSE, 0)
    ELSE Outcome(LoadState(m), TRUE, FALSE, 0)

\* SummaryMemory.get_messages(): the summary as a system message, then the
\* retained messages.
GetMessages(m) ==
    (IF m.summary # <<>> THEN <<[role |-> "system", summary |-> m.summary]>> ELSE <<>>)
    \o [i \in 1..Len(m.messages) |-> [role |-> "message", id |-> m.messages[i]]]

SetMem(m) ==
    /\ messages' = m.messages
    /\ token_counts' = m.token_counts
    /\ summary' = m.summary
    /\ summary_tokens' = m.summary_tokens
    /\ fileExists' = m.fileExists
    /\ fileText' = m.fileText

\* memOp.had of a clear: what the instance held when clear was called.
NoHad == [n |-> 0, summary |-> FALSE, file |-> FALSE]

MemInit ==
    /\ max_tokens \in ContextWindows
    /\ reserve_ratio \in ReserveRatios
    /\ messages = <<>>
    /\ token_counts = <<>>
    /\ summary = <<>>
    /\ summary_tokens = 0
    /\ fileExists = FALSE
    /\ fileText = <<>>
    /\ nextId = 1
    /\ added = <<>>
    /\ addedCounts = <<>>
    /\ memOp = [op |-> "new", ok |-> TRUE, replaced |-> FALSE, llm |-> 0, had |-> NoHad]

\* The memory the other specifications leave alone.
MemFixed ==
    /\ MemInit
    /\ max_tokens = 4
    /\ reserve_ratio = <<3, 10>>

\* There is an instance: the last call of the constructor did not raise.
Constructed == memOp.op = "new" => memOp.ok

\* add(message) with the gateway raising at one of points.
MemAddAt(points) ==
    /\ Constructed
    /\ nextId <= MaxAdds
    /\ \E tokens \in MsgTokenChoices, tok1 \in BlockTokenChoices,
          tok2 \in BlockTokenChoices, failAt \in points :
          LET r == AddOutcome(Mem, nextId, tokens, tok1, tok2, failAt)
              appended == failAt # "count_message"
          IN  /\ SetMem(r.m)
              /\ memOp' = [op |-> "add", ok |-> r.ok, replaced |-> r.replaced,
                           llm |-> r.llm, had |-> NoHad]
              /\ nextId' = IF appended THEN nextId + 1 ELSE nextId
              /\ added' = IF appended THEN Append(added, nextId) ELSE added
              /\ addedCounts' = IF appended THEN Append(addedCounts, tokens)
                                ELSE addedCounts
    /\ UNCHANGED <<max_tokens, reserve_ratio, agentVars, toolVars, cfgVars, parseVars>>

MemAdd == MemAddAt(FailPoints)

\* add(message) with every gateway call answering.
MemAddOk == MemAddAt({"none"})

MemClear ==
    /\ Constructed
    /\ SetMem(ClearState(Mem))
    /\ memOp' = [op |-> "clear", ok |-> TRUE, replaced |-> FALSE, llm |-> 0,
                 had |-> [n |-> Len(messages), summary |-> summary # <<>>,
                          file |-> fileExists]]
    /\ added' = <<>>
    /\ addedCounts' = <<>>
    /\ UNCHANGED <<max_tokens, reserve_ratio, nextId, agentVars, toolVars, cfgVars, parseVars>>

\* ------------------------------------------------------------------ agent with SummaryMemory
\* The adds of one step of run, in order: the i-th message is counted toks[i]
\* tokens, the model writing tok1s[i] and tok2s[i] tokens if that add compresses.
RECURSIVE StoreAll(_, _, _, _, _)
StoreAll(o, id, toks, tok1s, tok2s) ==
    IF toks = <<>> THEN o
    ELSE LET r == AddOutcome(o.m, id, Head(toks), Head(tok1s), Head(tok2s), "none")
         IN  StoreAll(Outcome(r.m, TRUE, o.replaced \/ r.replaced, o.llm + r.llm),
                      id + 1, Tail(toks), Tail(tok1s), Tail(tok2s))

\* The token counts the tokenizer gives a message of a run: a quarter and a
\* half of the context window.
RunTokenChoices == {1, 2}

\* add_message with a SummaryMemory behind agent a: every message the step
\* appended goes through SummaryMemory.add; the model writes summaries of one
\* size during a step.
StoreInSummaryMemory(a) ==
    LET n == Len(history'[a]) - Len(history[a])
    IN  \E toks \in [1..n -> RunTokenChoices], tok1 \in BlockTokenChoices,
           tok2 \in BlockTokenChoices :
           LET tok1s == [i \in 1..n |-> tok1]
               tok2s == [i \in 1..n |-> tok2]
               r == StoreAll(Outcome(Mem, TRUE, FALSE, 0), nextId, toks, tok1s, tok2s)
           IN  /\ SetMem(r.m)
               /\ memOp' = [op |-> "add", ok |-> TRUE, replaced |-> r.replaced,
                            llm |-> r.llm, had |-> NoHad]
               /\ nextId' = nextId + n
               /\ added' = added \o [i \in 1..n |-> nextId + i - 1]
               /\ addedCounts' = addedCounts \o toks
               /\ UNCHANGED <<max_tokens, reserve_ratio>>

\* The steps of run with a SummaryMemory as the agent's memory.
SmStart(a) ==
    StartStep(a) /\ StoreInSummaryMemory(a) /\ UNCHANGED <<toolVars, cfgVars, parseVars>>

SmRespFinish(a) ==
    RespFinishStep(a) /\ StoreInSummaryMemory(a) /\ UNCHANGED <<toolVars, cfgVars, parseVars>>

SmRespNoTool(a) ==
    RespNoToolStep(a) /\ StoreInSummaryMemory(a) /\ UNCHANGED <<toolVars, cfgVars, parseVars>>

SmRespTools(a) ==
    RespToolsStep(a) /\ StoreInSummaryMemory(a) /\ UNCHANGED <<toolVars, cfgVars, parseVars>>

\* _build_messages with a SummaryMemory: get_messages(), the retained entries
\* being the messages agent a handed to add.
OutboundHistory(a) ==
    LET out == GetMessages(Mem)
    IN  [i \in 1..Len(out) |->
            IF out[i].role = "system"
            THEN Message("system", out[i].summary, <<>>, NoId)
            ELSE history[a][out[i].id]]

\* ------------------------------------------------------------------ AppConfig
\* `_app_config: AppConfig | None = None`
NoConfig == [id |-> 0, data |-> "-"]

\* What the configuration file may hold; BaseConfig.load raises on a file that
\* is missing (read_text) and returns an instance built from its data otherwise.
ConfigFiles == {"missing", "v1", "v2"}

\* NeedsLoad loading on every call.
NeedsLoadAlways == TRUE

\* `if _app_config is None`
NeedsLoad == app_config = NoConfig

\* BaseConfig.load(): a new instance holding the file's data.
ConfigLoad == [id |-> cfgLoaded + 1, data |-> cfgFile]

\* AppConfig.get(): what it does to the module global.
AppConfigGet ==
    /\ cfgOp.n < MaxConfigOps
    /\ IF NeedsLoad
       THEN IF cfgFile = "missing"
            THEN /\ cfgOp' = [op |-> "get", loaded |-> TRUE, raised |-> TRUE,
                              returned |-> NoConfig, n |-> cfgOp.n + 1]
                 /\ cfgLastGot' = NoConfig
                 /\ UNCHANGED <<app_config, cfgLoaded>>
            ELSE /\ app_config' = ConfigLoad
                 /\ cfgLoaded' = cfgLoaded + 1
                 /\ cfgOp' = [op |-> "get", loaded |-> TRUE, raised |-> FALSE,
                              returned |-> ConfigLoad, n |-> cfgOp.n + 1]
                 /\ cfgLastGot' = ConfigLoad
       ELSE /\ cfgOp' = [op |-> "get", loaded |-> FALSE, raised |-> FALSE,
                         returned |-> app_config, n |-> cfgOp.n + 1]
            /\ cfgLastGot' = app_config
            /\ UNCHANGED <<app_config, cfgLoaded>>
    /\ cfgSinceReset' = cfgSinceReset + 1
    /\ UNCHANGED cfgFile

\* AppConfig.get() called on its own.
ConfigGet == AppConfigGet /\ UNCHANGED <<agentVars, toolVars, memVars, parseVars>>

\* AppConfig.reset()
ConfigReset ==
    /\ cfgOp.n < MaxConfigOps
    /\ app_config' = NoConfig
    /\ cfgOp' = [op |-> "reset", loaded |-> FALSE, raised |-> FALSE,
                 returned |-> NoConfig, n |-> cfgOp.n + 1]
    /\ cfgSinceReset' = 0
    /\ cfgLastGot' = NoConfig
    /\ UNCHANGED <<cfgFile, cfgLoaded, agentVars, toolVars, memVars, parseVars>>

\* Somebody writes, replaces or removes the configuration file.
ConfigFileWrite ==
    /\ \E f \in ConfigFiles \ {cfgFile} : cfgFile' = f
    /\ UNCHANGED <<app_config, cfgLoaded, cfgSinceReset, cfgLastGot, cfgOp,
                   agentVars, toolVars, memVars, parseVars>>

ConfigInit ==
    /\ app_config = NoConfig
    /\ cfgFile \in ConfigFiles
    /\ cfgLoaded = 0
    /\ cfgSinceReset = 0
    /\ cfgLastGot = NoConfig
    /\ cfgOp = [op |-> "new", loaded |-> FALSE, raised |-> FALSE,
                returned |-> NoConfig, n |-> 0]

\* The configuration the other specifications leave alone.
ConfigFixed ==
    /\ ConfigInit
    /\ cfgFile = "v1"

\* ------------------------------------------------------------------ SummaryMemory.__init__
\* SummaryMemory(task_id, reserve_ratio, model, workspace) for the task
\* identifier, ratio and workspace of the instance before, which is dropped.
\* With model = None (modelGiven = FALSE) line 31 asks AppConfig.get() for the
\* summary model; if that raises, or the token count of the summary read from
\* the file does, the constructor raises and there is no instance: its fields
\* are shown empty.  Every model explored has the same context window.
MemNewAt(modelGiven, points) ==
    /\ IF modelGiven THEN UNCHANGED cfgVars ELSE AppConfigGet
    /\ \E failAt \in (IF fileExists THEN points ELSE {"none"}) :
          LET r == IF ~modelGiven /\ cfgOp'.raised
                   THEN Outcome(ClearStateKeepsFile(Mem), FALSE, FALSE, 0)
                   ELSE LoadOutcome(Mem, failAt)
          IN  /\ SetMem(r.m)
              /\ memOp' = [op |-> "new", ok |-> r.ok, replaced |-> FALSE, llm |-> 0,
                           had |-> NoHad]
    /\ added' = <<>>
    /\ addedCounts' = <<>>
    /\ UNCHANGED <<max_tokens, reserve_ratio, nextId, agentVars, toolVars, parseVars>>

\* A new instance with its model named, the gateway raising or not.
MemRestart == MemNewAt(TRUE, LoadFailPoints)

\* A new instance with its model named, every gateway call answering.
MemRestartOk == MemNewAt(TRUE, {"none"})

\* A new instance with the default model, read from the configuration.
MemRestartDefaultModel == MemNewAt(FALSE, LoadFailPoints)

\* ------------------------------------------------------------------ _parse_summary
\* A text is a sequence of runs: n repetitions of one character.  In the texts
\* handed to _parse_summary a JSON member `"key": value` is written as one run
\* whose symbol names the member, MemberSpelling giving its characters; "x" is
\* a letter.
Run(sym, n) == [s |-> sym, n |-> n]

\* sys.int_info.default_max_str_digits: int() of a text of more digits raises
\* ValueError, also inside json.loads.
IntMaxStrDigits == 4300

\* sys.getrecursionlimit(): json.loads raises RecursionError on a value nested
\* as deep as this.
RecursionLimit == 1000

\* A member of a JSON object: its key and its value, by kind: "str" a string,
\* "list" a list of strings, "int" an integer of value digits, "nest" empty
\* lists nested value deep, value being RecursionLimit or more.
Member(key, kind, value) == [key |-> key, kind |-> kind, value |-> value]

\* The members the model's text may hold, by symbol.
Members ==
    [m \in {"m:task_context", "m:key_decisions", "m:other", "m:current_state",
            "m:important_info"} |->
        CASE m = "m:task_context" -> Member("task_context", "str", <<Run("t", 1)>>)
          [] m = "m:key_decisions" ->
                Member("key_decisions", "list", << <<Run("a", 1)>>, <<Run("b", 1)>> >>)
          [] m = "m:other" -> Member("other", "str", <<Run("o", 1)>>)
          [] m = "m:current_state" ->
                Member("current_state", "int", IntMaxStrDigits + 1)
          [] m = "m:important_info" ->
                Member("important_info", "nest", RecursionLimit)]

\* The characters of the keys.
KeyChars ==
    [k \in {"task_context", "key_decisions", "other", "current_state",
            "important_info"} |->
        CASE k = "task_context" ->
                <<"t", "a", "s", "k", "_", "c", "o", "n", "t", "e", "x", "t">>
          [] k = "key_decisions" ->
                <<"k", "e", "y", "_", "d", "e", "c", "i", "s", "i", "o", "n", "s">>
          [] k = "other" -> <<"o", "t", "h", "e", "r">>
          [] k = "current_state" ->
                <<"c", "u", "r", "r", "e", "n", "t", "_", "s", "t", "a", "t", "e">>
          [] k = "important_info" ->
                <<"i", "m", "p", "o", "r", "t", "a", "n", "t", "_", "i", "n", "f", "o">>]

Quoted(text) == <<Run("\"", 1)>> \o text \o <<Run("\"", 1)>>

\* The strings of a JSON list, quoted and joined by ", ".
RECURSIVE QuotedItems(_)
QuotedItems(items) ==
    IF items = <<>> THEN <<>>
    ELSE Quoted(Head(items))
         \o (IF Len(items) > 1 THEN <<Run(",", 1), Run(" ", 1)>> ELSE <<>>)
         \o QuotedItems(Tail(items))

\* How the summarization model writes a member: `"key": "value"`,
\* `"key": ["item", "item"]`, `"key": 11...1` or `"key": [[...]]`.
MemberChars(m) ==
    Quoted([i \in 1..Len(KeyChars[m.key]) |-> Run(KeyChars[m.key][i], 1)])
    \o <<Run(":", 1), Run(" ", 1)>>
    \o (CASE m.kind = "str" -> Quoted(m.value)
          [] m.kind = "list" -> <<Run("[", 1)>> \o QuotedItems(m.value) \o <<Run("]", 1)>>
          [] m.kind = "int" -> <<Run("1", m.value)>>
          [] m.kind = "nest" -> <<Run("[", m.value), Run("]", m.value)>>)

MemberSpelling == [s \in DOMAIN Members |-> MemberChars(Members[s])]

\* The characters json.loads skips between tokens.
JsonWhitespace == {" ", "\t", "\n", "\r"}

\* The runs a text is made of: braces, commas, whitespace, members (among them
\* the two whose values make json.loads raise) and a long stretch of prose.
RawRuns ==
    { Run(c, 1) : c \in {"{", "}", ",", " ", "m:task_context", "m:key_decisions",
                         "m:current_state", "m:important_info"} }
    \cup { Run("x", 499) }

\* The texts the summarization model may answer with.
RawTexts == UNION { [1..n -> RawRuns] : n \in 0..MaxRawLen }

\* `raw[:500]`
TaskContextLimit == 500

\* The text with every member spelled out: runs of one character each.
RECURSIVE Chars(_)
Chars(text) ==
    IF text = <<>> THEN <<>>
    ELSE LET h == Head(text)
         IN  IF h.s \notin DOMAIN Members THEN <<h>> \o Chars(Tail(text))
             ELSE IF h.n = 0 THEN Chars(Tail(text))
             ELSE MemberSpelling[h.s] \o Chars(<<Run(h.s, h.n - 1)>> \o Tail(text))

\* len(text) of a text with every member spelled out
RECURSIVE SpelledLen(_)
SpelledLen(text) == IF text = <<>> THEN 0 ELSE Head(text).n + SpelledLen(Tail(text))

\* The number of characters of each member.
MemberLen == [s \in DOMAIN Members |-> SpelledLen(MemberSpelling[s])]

\* len(text)
RECURSIVE CharLen(_)
CharLen(text) ==
    IF text = <<>> THEN 0
    ELSE Head(text).n * (IF Head(text).s \in DOMAIN Members
                         THEN MemberLen[Head(text).s] ELSE 1)
         + CharLen(Tail(text))

\* text[:limit]: the cut is by characters, so it may fall inside a member. The
\* result is written with every member spelled out.
RECURSIVE Truncate(_, _)
Truncate(text, limit) ==
    IF text = <<>> \/ limit <= 0 THEN <<>>
    ELSE LET h == Head(text)
             w == CharLen(<<h>>)
         IN  IF w <= limit THEN Chars(<<h>>) \o Truncate(Tail(text), limit - w)
             ELSE IF h.s \in DOMAIN Members THEN Truncate(Chars(<<h>>), limit)
             ELSE <<Run(h.s, limit)>>

\* str.find(sym), 0-based: the first run holding sym, -1 if none.
RECURSIVE FindSym(_, _, _)
FindSym(text, sym, i) ==
    IF i > Len(text) THEN -1
    ELSE IF text[i].s = sym THEN i - 1
    ELSE FindSym(text, sym, i + 1)

\* str.rfind(sym), 0-based: the last run holding sym, -1 if none.
RECURSIVE RFindSym(_, _, _)
RFindSym(text, sym, i) ==
    IF i < 1 THEN -1
    ELSE IF text[i].s = sym THEN i - 1
    ELSE RFindSym(text, sym, i - 1)

\* The text without the whitespace json.loads skips between tokens.
RECURSIVE SkipWhitespace(_)
SkipWhitespace(text) ==
    IF text = <<>> THEN <<>>
    ELSE (IF Head(text).s \in JsonWhitespace THEN <<>> ELSE <<Head(text)>>)
         \o SkipWhitespace(Tail(text))

\* How the decoding of a text ended: error is "none" and data the members of the
\* object in order, or error is the exception raised.
Decoded(data) == [error |-> "none", data |-> data]
DecodeRaised(error) == [error |-> error, data |-> <<>>]

\* What json.loads raises when it reads the value of member m: ValueError on an
\* integer of more than IntMaxStrDigits digits, RecursionError on a value nested
\* RecursionLimit deep or deeper, nothing ("none") otherwise.
MemberRaises(m) ==
    CASE m.kind = "int" /\ m.value > IntMaxStrDigits -> "ValueError"
      [] m.kind = "nest" /\ m.value >= RecursionLimit -> "RecursionError"
      [] OTHER -> "none"

\* json.loads after the opening brace, reading from left to right `m, m, ..., m}`:
\* the first member whose value raises ends the decoding with that exception,
\* the first token out of place with JSONDecodeError.
RECURSIVE JsonMembers(_)
JsonMembers(text) ==
    IF text = <<>> \/ Head(text).s \notin DOMAIN Members \/ Head(text).n < 1
    THEN DecodeRaised("JSONDecodeError")
    ELSE IF MemberRaises(Members[Head(text).s]) # "none"
    THEN DecodeRaised(MemberRaises(Members[Head(text).s]))
    ELSE IF Head(text).n # 1 \/ Len(text) = 1 THEN DecodeRaised("JSONDecodeError")
    ELSE IF text[2] = Run("}", 1)
    THEN IF Len(text) = 2 THEN Decoded(<<Members[Head(text).s]>>)
         ELSE DecodeRaised("JSONDecodeError")
    ELSE IF text[2] # Run(",", 1) THEN DecodeRaised("JSONDecodeError")
    ELSE LET rest == JsonMembers(SubSeq(text, 3, Len(text)))
         IN  IF rest.error # "none" THEN rest
             ELSE Decoded(<<Members[Head(text).s]>> \o rest.data)

\* json.loads of a text: the members of the object in order, or the exception
\* it raises: JSONDecodeError, ValueError or RecursionError. Whitespace around
\* the tokens is skipped.
JsonLoads(text) ==
    LET t == SkipWhitespace(text)
    IN  IF Len(t) < 2 \/ t[1] # Run("{", 1) THEN DecodeRaised("JSONDecodeError")
        ELSE IF t[2] = Run("}", 1)
        THEN IF Len(t) = 2 THEN Decoded(<<>>) ELSE DecodeRaised("JSONDecodeError")
        ELSE JsonMembers(SubSeq(t, 2, Len(t)))

\* "\n".join(f"- {item}" for item in v)
RECURSIVE JoinItems(_)
JoinItems(items) ==
    IF items = <<>> THEN <<>>
    ELSE <<Run("-", 1), Run(" ", 1)>> \o Head(items)
         \o (IF Len(items) > 1 THEN <<Run("\n", 1)>> ELSE <<>>)
         \o JoinItems(Tail(items))

\* The value _parse_summary keeps of a member.
MemberText(m) ==
    CASE m.kind = "str" -> m.value
      [] m.kind = "list" -> JoinItems(m.value)
      [] m.kind = "int" -> <<Run("1", m.value)>>

Fields == {"task_context", "key_decisions", "actions_taken", "current_state",
           "important_info"}

\* "N/A"
NotAvailable == <<Run("N", 1), Run("/", 1), Run("A", 1)>>

\* `default`
Default == [k \in Fields |-> NotAvailable]

DataKeys(data) == { data[i].key : i \in 1..Len(data) }

\* The value of key k in the decoded object: of a key given twice, the last.
DataValue(data, k) ==
    MemberText(data[CHOOSE i \in 1..Len(data) :
                       data[i].key = k /\ \A j \in (i + 1)..Len(data) : data[j].key # k])

\* `{**default, **data}`
WithData(data) ==
    [k \in Fields \cup DataKeys(data) |->
        IF k \in DataKeys(data) THEN DataValue(data, k) ELSE Default[k]]

\* `{**default, "task_context": raw[:500]}`
Fallback(text) == [Default EXCEPT !["task_context"] = Truncate(text, TaskContextLimit)]

\* How _parse_summary ended: error is "none" and record what it returned, or
\* error is the exception it raised.
Returns(record) == [error |-> "none", record |-> record]
Raises(error) == [error |-> error, record |-> <<>>]

\* The exceptions _parse_summary catches.
Caught == {"JSONDecodeError", "KeyError"}

\* SummaryMemory._parse_summary(raw)
ParseSummary(text) ==
    LET start == FindSym(text, "{", 1)
        end == RFindSym(text, "}", Len(text)) + 1
    IN  IF start >= 0 /\ end > start
        THEN LET d == JsonLoads(SubSeq(text, start + 1, end))
             IN  IF d.error = "none" THEN Returns(WithData(d.data))
                 ELSE IF d.error \in Caught THEN Returns(Fallback(text))
                 ELSE Raises(d.error)
        ELSE Returns(Fallback(text))

NoParse == [k \in {"<none>"} |-> <<>>]

\* No text parsed yet.
ParseFixed ==
    /\ raw = <<>>
    /\ parsed = NoParse
    /\ parseError = "none"

\* The summarization model has answered with some text.
ParseInit ==
    /\ raw \in RawTexts
    /\ parsed = NoParse
    /\ parseError = "none"

\* _parse_summary has been called and has returned or raised.
ParseCalled == parsed # NoParse \/ parseError # "none"

\* _parse_summary is called with the model's text.
CallParseSummary ==
    /\ ~ParseCalled
    /\ LET r == ParseSummary(raw)
       IN  /\ parsed' = IF r.error = "none" THEN r.record ELSE NoParse
           /\ parseError' = r.error
    /\ UNCHANGED <<raw, agentVars, toolVars, memVars, cfgVars>>

\* ------------------------------------------------------------------ specifications
\* One agent running against a fixed registry.
InitAgent ==
    /\ AgentInit({ [a \in AgentIds |-> IF a = 1 THEN n ELSE 0] : n \in 0..MaxIter })
    /\ ToolsFixed
    /\ MemFixed
    /\ ConfigFixed
    /\ ParseFixed

NextAgent ==
    \/ Start(1)
    \/ RespFinish(1)
    \/ RespNoTool(1)
    \/ RespTools(1)
    \/ ModelFail(1)

SpecAgent == InitAgent /\ [][NextAgent]_vars

\* The max_iterations of the agents that run side by side.
PairIterations == {1, 2}

\* Two agents, each with its own memory, their runs interleaved at the model
\* calls they await.
InitAgents ==
    /\ AgentInit([AgentIds -> PairIterations])
    /\ ToolsFixed
    /\ MemFixed
    /\ ConfigFixed
    /\ ParseFixed

NextAgents ==
    \E a \in AgentIds :
        \/ Start(a)
        \/ RespFinish(a)
        \/ RespNoTool(a)
        \/ RespTools(a)
        \/ ModelFail(a)

SpecAgents == InitAgents /\ [][NextAgents]_vars

\* One agent whose memory is a SummaryMemory of max_tokens 4.
InitAgentMemory ==
    /\ AgentInit({ [a \in AgentIds |-> IF a = 1 THEN n ELSE 0] : n \in PairIterations })
    /\ ToolsFixed
    /\ MemFixed
    /\ ConfigFixed
    /\ ParseFixed

NextAgentMemory ==
    \/ SmStart(1)
    \/ SmRespFinish(1)
    \/ SmRespNoTool(1)
    \/ SmRespTools(1)
    \/ ModelFail(1)

SpecAgentMemory == InitAgentMemory /\ [][NextAgentMemory]_vars

\* The tool registry under register and clear.
InitTools ==
    /\ AgentInit({ [a \in AgentIds |-> 0] })
    /\ ToolsInit
    /\ MemFixed
    /\ ConfigFixed
    /\ ParseFixed

NextTools ==
    \/ \E o \in ToolObjects : Register(o)
    \/ ToolsClear

SpecTools == InitTools /\ [][NextTools]_vars

\* One SummaryMemory constructed with its model named, its file, and the new
\* instances constructed over that file.
InitMemory ==
    /\ AgentInit({ [a \in AgentIds |-> 0] })
    /\ ToolsFixed
    /\ MemInit
    /\ ConfigFixed
    /\ ParseFixed

NextMemory ==
    \/ MemAdd
    \/ MemClear
    \/ MemRestart

SpecMemory == InitMemory /\ [][NextMemory]_vars

\* The same with a gateway that never raises.
NextMemoryOk ==
    \/ MemAddOk
    \/ MemClear
    \/ MemRestartOk

SpecMemoryOk == InitMemory /\ [][NextMemoryOk]_vars

\* AppConfig under get and reset, the file changing in between; get is called
\* directly and by the constructor of a SummaryMemory with the default model.
InitConfig ==
    /\ AgentInit({ [a \in AgentIds |-> 0] })
    /\ ToolsFixed
    /\ MemFixed
    /\ ConfigInit
    /\ ParseFixed

NextConfig ==
    \/ ConfigGet
    \/ ConfigReset
    \/ ConfigFileWrite
    \/ MemRestartDefaultModel

SpecConfig == InitConfig /\ [][NextConfig]_vars

\* _parse_summary over the texts of the summarization model.
InitParse ==
    /\ AgentInit({ [a \in AgentIds |-> 0] })
    /\ ToolsFixed
    /\ MemFixed
    /\ ConfigFixed
    /\ ParseInit

NextParse == CallParseSummary

SpecParse == InitParse /\ [][NextParse]_vars

\* ------------------------------------------------------------------ claims
\* The end token occurs in text c at position i.
OccursAt(c, i) ==
    /\ i >= 1
    /\ i + Len(EndToken) - 1 <= Len(c)
    /\ \A k \in 1..Len(EndToken) : c[i + k - 1] = EndToken[k]

Occurs(c) == \E i \in 1..Len(c) : OccursAt(c, i)

\* r is p without its leading and trailing whitespace.
TrimOf(p, r) ==
    \E i, j \in 0..Len(p) :
        /\ i + j <= Len(p)
        /\ r = SubSeq(p, i + 1, Len(p) - j)
        /\ \A k \in 1..i : p[k] \in Whitespace
        /\ \A k \in (Len(p) - j + 1)..Len(p) : p[k] \in Whitespace
        /\ r # <<>> => (r[1] \notin Whitespace /\ r[Len(r)] \notin Whitespace)

Returned(a) == pc[a] \in {"finished", "exhausted"}

\* C1: run never calls the model more than max_iterations times, and a run that
\* returns without any response holding the end token returns the sentinel
\* "Max iterations reached" after exactly max_iterations calls, each answered.
C1_IterationCap ==
    \A a \in AgentIds :
        /\ calls[a] <= maxIter[a]
        /\ (Returned(a) /\ ~Occurs(lastResp[a].content)) =>
              /\ result[a] = MaxIterationsReached
              /\ calls[a] = maxIter[a]
              /\ resps[a] = maxIter[a]

\* A run of three iterations, one with tool calls, ended by the cap.
C1_Witness ==
    /\ pc[1] = "exhausted"
    /\ maxIter[1] = 3
    /\ calls[1] = 3
    /\ executed[1] # <<>>
    /\ result[1] = MaxIterationsReached

\* C2: a response holding the end token ends the run; the value returned is the
\* text before the token's first occurrence without its surrounding whitespace,
\* the last message in memory is an assistant message with exactly that text,
\* and the token occurs neither in the stored message nor in the value returned.
C2_FinalAnswer ==
    \A a \in AgentIds :
        (resps[a] > 0 /\ Occurs(lastResp[a].content)) =>
            LET c == lastResp[a].content
                h == history[a]
                first == CHOOSE i \in 1..Len(c) :
                            OccursAt(c, i) /\ \A j \in 1..(i - 1) : ~OccursAt(c, j)
            IN  /\ pc[a] = "finished"
                /\ TrimOf(SubSeq(c, 1, first - 1), result[a])
                /\ h # <<>>
                /\ h[Len(h)] = [role |-> "assistant", content |-> result[a],
                                tool_calls |-> <<>>, tool_call_id |-> NoId]
                /\ ~Occurs(result[a])
                /\ ~Occurs(h[Len(h)].content)

\* The response " a [F]b" gave the answer "a".
C2_Witness ==
    /\ pc[1] = "finished"
    /\ lastResp[1].content = <<" ", "a", " ", "[", "F", "]", "b">>
    /\ result[1] = <<"a">>
    /\ history[1][Len(history[1])].content = <<"a">>

\* c is p, the end token, q, with the token in neither p nor q.
OneTokenForm(c, p, q) == c = p \o EndToken \o q /\ ~Occurs(p) /\ ~Occurs(q)

\* C3 as claimed: for a response <partial reasoning><END><final answer text>, run
\* returns the text after the end token, trimmed.
C3_ReturnsTextAfterToken ==
    \A a \in AgentIds :
        pc[a] = "finished" =>
            LET c == lastResp[a].content
            IN  \A i \in 1..Len(c) :
                    LET p == SubSeq(c, 1, i - 1)
                        q == SubSeq(c, i + Len(EndToken), Len(c))
                    IN  OneTokenForm(c, p, q) => TrimOf(q, result[a])

\* C3 as amended: for a response <partial reasoning><END><final answer text>, run
\* returns the text before the end token, trimmed; the text after it is dropped.
C3_ReturnsTextBeforeToken ==
    \A a \in AgentIds :
        pc[a] = "finished" =>
            LET c == lastResp[a].content
            IN  \A i \in 1..Len(c) :
                    LET p == SubSeq(c, 1, i - 1)
                        q == SubSeq(c, i + Len(EndToken), Len(c))
                    IN  OneTokenForm(c, p, q) => TrimOf(p, result[a])

\* The response "a b[F] c " gave "a b", not "c".
C3_Witness ==
    /\ pc[1] = "finished"
    /\ lastResp[1].content = <<"a", " ", "b", "[", "F", "]", " ", "c", " ">>
    /\ result[1] = <<"a", " ", "b">>

\* C4: a response without the end token that carries tool calls t1..tk adds to
\* memory, after what it held and before the next model call: one assistant
\* message with the response's text and the records of t1..tk in order, then
\* exactly k tool messages, the i-th with ti's id and the result of executing ti.
C4_ToolRound ==
    [][\A a \in AgentIds :
          (resps'[a] = resps[a] + 1
           /\ ~Occurs(lastResp'[a].content)
           /\ lastResp'[a].tool_calls # <<>>) =>
              LET r == lastResp'[a]
                  k == Len(r.tool_calls)
                  n == Len(history[a])
                  h == history'[a]
              IN  /\ Len(h) = n + 1 + k
                  /\ SubSeq(h, 1, n) = history[a]
                  /\ h[n + 1].role = "assistant"
                  /\ h[n + 1].content = r.content
                  /\ h[n + 1].tool_call_id = NoId
                  /\ Len(h[n + 1].tool_calls) = k
                  /\ \A i \in 1..k :
                        /\ h[n + 1].tool_calls[i] =
                              [id |-> r.tool_calls[i].id, type |-> r.tool_calls[i].type,
                               function |->
                                  [name |-> r.tool_calls[i].name,
                                   arguments |-> JsonDumps(r.tool_calls[i].arguments)]]
                        /\ h[n + 1 + i] =
                              [role |-> "tool",
                               content |-> ExecuteTool(r.tool_calls[i].name,
                                                       r.tool_calls[i].arguments),
                               tool_calls |-> <<>>,
                               tool_call_id |-> r.tool_calls[i].id]
                  /\ calls'[a] \in {calls[a], calls[a] + 1}
                  /\ executed'[a] = executed[a] \o r.tool_calls]_vars

\* One tool call, then the end token: user, assistant with the record, tool
\* message with the same id and the tool's result, final assistant message.
C4_Witness ==
    /\ pc[1] = "finished"
    /\ Len(history[1]) = 4
    /\ [i \in 1..4 |-> history[1][i].role] = <<"user", "assistant", "tool", "assistant">>
    /\ Len(history[1][2].tool_calls) = 1
    /\ history[1][2].tool_calls[1].id = "c1"
    /\ history[1][2].tool_calls[1].function.arguments = <<"{", "\"", "x", "\"", ":", " ", "1", "}">>
    /\ history[1][3].tool_call_id = "c1"
    /\ history[1][3].content = <<"4", "2", "1">>
    /\ history[1][4].content = result[1]

\* r is floor(max_tokens * reserve_ratio).
IsFloorOfReserve(r) ==
    /\ r * reserve_ratio[2] <= max_tokens * reserve_ratio[1]
    /\ max_tokens * reserve_ratio[1] < (r + 1) * reserve_ratio[2]

\* C5: after an add that returned normally, the summary's tokens and the retained
\* messages' tokens together are within max_tokens.
C5_WithinBudget ==
    (memOp.op = "add" /\ memOp.ok) =>
        summary_tokens + SumSeq(token_counts) <= max_tokens

\* C6 as claimed: after a compression that replaced the retained lists, the
\* retained messages' tokens are within reserve_tokens and at least one message
\* is retained.
C6_KeptWithinReserve ==
    memOp.replaced =>
        /\ Len(messages) >= 1
        /\ \A r \in 0..max_tokens :
              IsFloorOfReserve(r) => SumSeq(token_counts) <= r

\* C6 as amended: after a compression that replaced the retained lists, at least
\* one message is retained, and the retained messages' tokens are within
\* reserve_tokens unless the only message retained is the most recent one and it
\* alone exceeds reserve_tokens; reserve_tokens, as the code computes it, is
\* never above floor(max_tokens * reserve_ratio).
C6_KeptWithinReserveOrSingle ==
    memOp.replaced =>
        /\ Len(messages) >= 1
        /\ Len(token_counts) = Len(messages)
        /\ messages[Len(messages)] = nextId - 1
        /\ \/ SumSeq(token_counts) <= ReserveTokens
           \/ Len(messages) = 1 /\ token_counts[1] > ReserveTokens
        /\ \A r \in 0..max_tokens :
              IsFloorOfReserve(r) =>
                  /\ ReserveTokens <= r
                  /\ \/ SumSeq(token_counts) <= r
                     \/ Len(messages) = 1 /\ token_counts[1] > ReserveTokens

\* A compression that kept two messages, within the reserve.
C6_Witness ==
    /\ memOp.replaced
    /\ Len(messages) = 2
    /\ summary # <<>>
    /\ SumSeq(token_counts) <= ReserveTokens

\* C7: after an add that returned normally, with every gateway call answered,
\* summary.md holds the in-memory summary whenever there is one, so a new
\* instance for the same task starts with the summary this one holds.
C7_FileHoldsSummary ==
    (memOp.op = "add" /\ memOp.ok /\ summary # <<>>) =>
        /\ fileExists
        /\ fileText = summary
        /\ LoadState(Mem).summary = summary

\* C8: after clear there are no retained messages, token_count is 0, there is no
\* summary, summary_tokens is 0 and no summary file; get_messages() is empty and
\* an instance constructed now for the same task loads no summary.
C8_ClearDropsAll ==
    memOp.op = "clear" =>
        /\ messages = <<>>
        /\ token_counts = <<>>
        /\ TokenCount(token_counts) = 0
        /\ summary = <<>>
        /\ summary_tokens = 0
        /\ ~fileExists
        /\ GetMessages(Mem) = <<>>
        /\ LoadState(Mem).summary = <<>>
        /\ LoadState(Mem).summary_tokens = 0

\* clear was called on an instance with retained messages, a summary and a file.
C8_Witness ==
    /\ memOp.op = "clear"
    /\ memOp.had.n > 0
    /\ memOp.had.summary
    /\ memOp.had.file

\* C9: the registry holds at most one entry per name, the entry of a name is the
\* tool last registered under it (since the last clear), and get_schema() without
\* names returns one entry per registered name, no name twice.
C9_OneEntryPerName ==
    /\ \A i, j \in 1..Len(tools) : tools[i].name = tools[j].name => i = j
    /\ \A i \in 1..Len(tools) :
          /\ tools[i].tool.name = tools[i].name
          /\ tools[i].tool.oid = lastByName[tools[i].name]
    /\ \A k \in ToolNames : lastByName[k] # "-" => \E i \in 1..Len(tools) : tools[i].name = k
    /\ LET sch == GetSchema(NamesNone)
       IN  /\ Len(sch) = Cardinality({ k \in ToolNames : lastByName[k] # "-" })
           /\ \A i, j \in 1..Len(sch) :
                 sch[i].function.name = sch[j].function.name => i = j

\* A register that replaced the entry of its name, with another name registered.
C9_Witness ==
    /\ toolOp.op = "register"
    /\ toolOp.outcome = "ok"
    /\ toolOp.overwrote
    /\ Len(tools) = 2
    /\ Len(GetSchema(NamesNone)) = 2

ObjectOf(oid) == CHOOSE o \in ToolObjects : o.oid = oid

\* C10: a register that succeeds runs the tool's init exactly once and leaves the
\* tool visible to get and get_schema; one that fails (the value is no Tool, or
\* its init raises) leaves the registry as it was, and fails for that reason
\* only.  Every tool in the registry has had its init run.
C10_RegisterInitThenStore ==
    [][toolOp'.n = toolOp.n + 1 =>
          LET o == ObjectOf(toolOp'.oid)
          IN  /\ toolOp'.outcome = "ok" <=> (o.isTool /\ ~o.initRaises)
              /\ toolOp'.outcome = "TypeError" <=> ~o.isTool
              /\ \A x \in ObjectIds \ {o.oid} : initCount'[x] = initCount[x]
              /\ IF toolOp'.outcome = "ok"
                 THEN /\ initCount'[o.oid] = initCount[o.oid] + 1
                      /\ \E i \in 1..Len(tools') :
                            tools'[i] = [name |-> o.name, tool |-> o]
                      /\ \A i \in 1..Len(tools') :
                            tools'[i].name # o.name => \E j \in 1..Len(tools) : tools[j] = tools'[i]
                 ELSE /\ tools' = tools
                      /\ toolOp'.outcome = "TypeError" => initCount'[o.oid] = initCount[o.oid]
              /\ \A i \in 1..Len(tools') : initCount'[tools'[i].tool.oid] >= 1]_vars

\* A register whose init raised, under a name that was registered before.
C10_Witness ==
    /\ toolOp.op = "register"
    /\ toolOp.outcome = "InitError"
    /\ toolOp.oid = "boom"
    /\ initCount["boom"] = 1
    /\ DictHas(tools, "echo")
    /\ DictGet(tools, "echo").oid = "echo"

\* C11: given a names list, the empty list included, get_schema returns entries
\* only for names that are in the list and registered, one per such name in list
\* order, unknown names skipped; the empty list gives no entry; every registered
\* tool is returned only when names is omitted.
C11_SchemaOnlyNamed ==
    /\ \A l \in NameLists :
          LET sch == GetSchema(NamesList(l))
              named == SelectSeq(l, LAMBDA k : \E i \in 1..Len(tools) : tools[i].name = k)
          IN  /\ Len(sch) = Len(named)
              /\ \A i \in 1..Len(sch) : sch[i].function.name = named[i]
              /\ l = <<>> => sch = <<>>
    /\ LET all == GetSchema(NamesNone)
       IN  /\ Len(all) = Len(tools)
           /\ \A i \in 1..Len(all) : all[i].function.name = tools[i].name

\* C12 as claimed: the file is loaded only by a get that is the first call of
\* get since the process started or since the last reset; every other get
\* returns the instance the previous get returned, without loading.
C12_LoadOnlyOnFirstGet ==
    [][(cfgOp'.n = cfgOp.n + 1 /\ cfgOp'.op = "get") =>
          IF cfgSinceReset = 0
          THEN cfgOp'.loaded
          ELSE /\ ~cfgOp'.loaded
               /\ cfgOp'.returned # NoConfig
               /\ cfgOp'.returned = cfgLastGot]_vars

\* C12 as amended: the file is loaded only by a get before which no get has
\* returned an instance since the process started or since the last reset (the
\* first one, or one after gets whose load raised); every other get returns the
\* instance the previous get returned, without loading, whatever the file holds
\* by then.
C12_LoadOnlyWhileNothingCached ==
    [][(cfgOp'.n = cfgOp.n + 1 /\ cfgOp'.op = "get") =>
          IF cfgLastGot = NoConfig
          THEN /\ cfgOp'.loaded
               /\ cfgSinceReset > 0 => cfgOp.op = "get" /\ cfgOp.raised
               /\ ~cfgOp'.raised =>
                     /\ cfgOp'.returned.id = cfgLoaded + 1
                     /\ cfgOp'.returned.data = cfgFile
          ELSE /\ ~cfgOp'.loaded
               /\ ~cfgOp'.raised
               /\ cfgOp'.returned = cfgLastGot
               /\ cfgLoaded' = cfgLoaded]_vars

\* A get answered from the cache after the file was rewritten, in the second
\* epoch: the first get after a reset loaded a second instance.
C12_Witness ==
    /\ cfgOp.op = "get"
    /\ ~cfgOp.loaded
    /\ cfgOp.returned.id = 2
    /\ cfgOp.returned.data # cfgFile
    /\ cfgSinceReset = 2

\* tc is the first characters of text: the same runs, the last one possibly cut.
IsPrefix(tc, text) ==
    /\ Len(tc) <= Len(text)
    /\ \A i \in 1..Len(tc) :
          /\ tc[i].s = text[i].s
          /\ IF i < Len(tc) THEN tc[i].n = text[i].n
             ELSE tc[i].n >= 1 /\ tc[i].n <= text[i].n

\* C13: _parse_summary never raises on the model's text.  If the text holds no
\* "{" followed later by a "}", or the span from the first "{" to the last "}"
\* does not decode, the record has exactly the five fields, task_context is the
\* first 500 characters of the text and the other four are "N/A"; if the span
\* decodes, every one of the five fields the object omits is "N/A".
C13_ParseFallsBack ==
    ParseCalled =>
        LET opens == { i \in 1..Len(raw) : raw[i].s = "{" }
            closes == { j \in 1..Len(raw) : raw[j].s = "}" }
            located == \E i \in opens, j \in closes : i < j
            first == CHOOSE i \in opens : \A k \in opens : i <= k
            last == CHOOSE j \in closes : \A k \in closes : j >= k
            d == JsonLoads(SubSeq(raw, first, last))
        IN  /\ parseError = "none"
            /\ Fields \subseteq DOMAIN parsed
            /\ IF ~located \/ d.error # "none"
               THEN /\ DOMAIN parsed = Fields
                    /\ IsPrefix(parsed["task_context"], Chars(raw))
                    /\ CharLen(parsed["task_context"]) =
                          (IF CharLen(raw) < 500 THEN CharLen(raw) ELSE 500)
                    /\ \A f \in Fields \ {"task_context"} : parsed[f] = NotAvailable
               ELSE \A f \in Fields :
                       (\A i \in 1..Len(d.data) : d.data[i].key # f) =>
                           parsed[f] = NotAvailable

\* The run of one agent executed alone, with max_iterations maxIt, on the
\* responses log, from the i-th response on with memory hist: the memory and the
\* result it ends with, and whether it awaits a response the log does not hold.
RECURSIVE AloneFrom(_, _, _, _)
AloneFrom(maxIt, log, i, hist) ==
    IF i > maxIt
    THEN [history |-> hist, result |-> <<"Max iterations reached">>, at |-> "exhausted"]
    ELSE IF i > Len(log)
    THEN [history |-> hist, result |-> NoResult, at |-> "awaiting"]
    ELSE LET r == log[i]
         IN  IF Occurs(r.content)
             THEN LET answer == Strip(Split(r.content, EndToken)[1])
                  IN  [history |-> Append(hist, MessageAssistant(answer, <<>>)),
                       result |-> answer, at |-> "finished"]
             ELSE IF r.tool_calls = <<>>
             THEN AloneFrom(maxIt, log, i + 1,
                            Append(hist, MessageAssistant(r.content, <<>>)))
             ELSE AloneFrom(maxIt, log, i + 1,
                            Append(hist, MessageAssistant(r.content,
                                                          FormatToolCalls(r.tool_calls)))
                            \o [k \in 1..Len(r.tool_calls) |->
                                   MessageTool(ExecuteTool(r.tool_calls[k].name,
                                                           r.tool_calls[k].arguments),
                                               r.tool_calls[k].id)])

Alone(maxIt, input, log) == AloneFrom(maxIt, log, 1, <<MessageUser(input)>>)

\* C14: with two agents interleaved at their model calls, each agent's memory
\* holds exactly what its run executed alone on the same responses would have
\* stored, in the same order, and each run returns what it would return alone.
C14_NoInterference ==
    \A a \in AgentIds :
        IF pc[a] = "idle"
        THEN history[a] = <<>> /\ result[a] = NoResult
        ELSE \E input \in UserInputs :
                LET alone == Alone(maxIter[a], input, respLog[a])
                IN  /\ history[a] = alone.history
                    /\ result[a] = alone.result
                    /\ pc[a] = "failed" \/ pc[a] = alone.at

\* Both agents are suspended at their second model call, after different first
\* iterations: one executed tools, the other did not.
C14_Witness ==
    /\ pc[1] = "awaiting"
    /\ pc[2] = "awaiting"
    /\ calls[1] = 2
    /\ calls[2] = 2
    /\ executed[1] # <<>>
    /\ executed[2] = <<>>
    /\ Len(history[1]) > Len(history[2])

\* C15: a response that holds the end token and carries tool calls ends the run
\* in that iteration: no tool is executed, memory gains one assistant message
\* with the final answer and without tool calls, and nothing else; and a run
\* that is finished makes no further model call.
C15_EndTokenBeforeTools ==
    [][\A a \in AgentIds :
          /\ (resps'[a] = resps[a] + 1
              /\ Occurs(lastResp'[a].content)
              /\ lastResp'[a].tool_calls # <<>>) =>
                 LET n == Len(history[a])
                     h == history'[a]
                 IN  /\ pc'[a] = "finished"
                     /\ executed'[a] = executed[a]
                     /\ calls'[a] = calls[a]
                     /\ Len(h) = n + 1
                     /\ SubSeq(h, 1, n) = history[a]
                     /\ h[n + 1].role = "assistant"
                     /\ h[n + 1].tool_calls = <<>>
                     /\ h[n + 1].content = result'[a]
                     /\ \A i \in 1..Len(h) :
                           h[i].role = "tool" => \E j \in 1..n : history[a][j] = h[i]
          /\ pc[a] = "finished" =>
                 /\ pc'[a] = "finished"
                 /\ calls'[a] = calls[a]
                 /\ history'[a] = history[a]
                 /\ executed'[a] = executed[a]]_vars

\* The first response of a run held the end token and two tool calls: the run is
\* finished after one model call, with the user message and the answer in memory,
\* while the other agent runs on.
C15_Witness ==
    /\ pc[1] = "finished"
    /\ pc[2] = "awaiting"
    /\ calls[2] = 2
    /\ calls[1] = 1
    /\ Len(lastResp[1].tool_calls) = 2
    /\ Occurs(lastResp[1].content)
    /\ executed[1] = <<>>
    /\ Len(history[1]) = 2

\* C16: a model call that fails in iteration k ends the run without a return
\* value: a run returns only if every call it made was answered, a failed run
\* makes no further call, and its memory holds the user message and what
\* iterations 1..k-1 appended, the failing step itself changing nothing in it.
C16_FailurePropagates ==
    [][\A a \in AgentIds :
          /\ pc'[a] \in {"finished", "exhausted"} => calls'[a] = resps'[a]
          /\ (pc'[a] = "failed" /\ pc[a] # "failed") =>
                 /\ pc[a] = "awaiting"
                 /\ history'[a] = history[a]
                 /\ calls'[a] = calls[a]
                 /\ resps'[a] = resps[a]
                 /\ executed'[a] = executed[a]
          /\ pc'[a] = "failed" =>
                 /\ result'[a] = NoResult
                 /\ calls'[a] = iter'[a]
                 /\ resps'[a] = iter'[a] - 1
                 /\ Len(respLog'[a]) = iter'[a] - 1
                 /\ \E input \in UserInputs :
                       history'[a] = Alone(iter'[a] - 1, input, respLog'[a]).history
          /\ pc[a] = "failed" =>
                 /\ pc'[a] = "failed"
                 /\ calls'[a] = calls[a]
                 /\ history'[a] = history[a]
                 /\ result'[a] = result[a]]_vars

\* The second model call of a run failed, after a round of two tool calls:
\* memory holds the user message and the three messages of that round, while
\* the other agent went on to finish.
C16_Witness ==
    /\ pc[1] = "failed"
    /\ calls[1] = 2
    /\ resps[1] = 1
    /\ result[1] = NoResult
    /\ Len(executed[1]) = 2
    /\ Len(history[1]) = 4
    /\ history[1][4].role = "tool"
    /\ pc[2] = "finished"

\* C17: an add that appended its message calls the model only if, with the new
\* message, summary_tokens plus the retained token counts exceed max_tokens; if
\* they do not, add makes no model call, leaves the summary, summary_tokens and
\* the file as they were, and the retained lists are the previous ones with the
\* new message and its count appended.
C17_SummarizeOnlyOverLimit ==
    [][(memOp'.op = "add" /\ nextId' = nextId + 1) =>
          LET tokens == addedCounts'[Len(addedCounts')]
              total == summary_tokens + SumSeq(token_counts) + tokens
          IN  /\ memOp'.llm > 0 => total > max_tokens
              /\ total <= max_tokens =>
                    /\ memOp'.llm = 0
                    /\ memOp'.ok
                    /\ summary' = summary
                    /\ summary_tokens' = summary_tokens
                    /\ fileExists' = fileExists
                    /\ fileText' = fileText
                    /\ messages' = Append(messages, nextId)
                    /\ token_counts' = Append(token_counts, tokens)]_vars

\* An add that brought the total to exactly max_tokens, with a summary in place:
\* no model call, two retained messages.
C17_Witness ==
    /\ memOp.op = "add"
    /\ memOp.ok
    /\ memOp.llm = 0
    /\ summary # <<>>
    /\ summary_tokens + SumSeq(token_counts) = max_tokens
    /\ Len(messages) = 2
    /\ messages[2] = nextId - 1

\* C18: the retained messages are a contiguous suffix, in order, of the messages
\* added since the last clear; the token-count list is as long as the message
\* list, its i-th entry being the count the tokenizer gave the i-th retained
\* message; and token_count is the sum of the retained messages' counts.
C18_RetainedIsSuffix ==
    /\ Len(added) = Len(addedCounts)
    /\ Len(messages) = Len(token_counts)
    /\ Len(messages) <= Len(added)
    /\ LET skip == Len(added) - Len(messages)
       IN  /\ \A i \in 1..Len(messages) :
                 /\ messages[i] = added[skip + i]
                 /\ token_counts[i] = addedCounts[skip + i]
           /\ TokenCount(token_counts) =
                 SumSeq([i \in 1..Len(messages) |-> addedCounts[skip + i]])

\* A compression that kept the last two of four messages added, their counts
\* differing.
C18_Witness ==
    /\ memOp.op = "add"
    /\ memOp.replaced
    /\ Len(added) = 4
    /\ messages = SubSeq(added, 3, 4)
    /\ token_counts = SubSeq(addedCounts, 3, 4)
    /\ addedCounts[1] # addedCounts[4]

\* C19: whatever gateway calls raised during the adds so far, no retained
\* message is one the in-memory summary already incorporates, and no message
\* was put into two summarization batches: the summary's blocks cover disjoint
\* sets of messages.
C19_NoMessageSummarizedTwice ==
    /\ \A i \in 1..Len(messages) : messages[i] \notin Covered(summary)
    /\ \A i, j \in 1..Len(summary) :
          i # j => summary[i].covers \cap summary[j].covers = {}

\* C20: with a SummaryMemory behind the agent, at every model invocation every
\* tool message of the outbound history is preceded in it by an assistant
\* message carrying a tool call with the tool message's tool_call_id.
C20_ToolResultsPaired ==
    \A a \in {1} :
        pc[a] = "awaiting" =>
            LET out == OutboundHistory(a)
            IN  \A i \in 1..Len(out) :
                    out[i].role = "tool" =>
                        \E j \in 1..(i - 1) :
                            /\ out[j].role = "assistant"
                            /\ \E k \in 1..Len(out[j].tool_calls) :
                                  out[j].tool_calls[k].id = out[i].tool_call_id
====
